---- MODULE Spec2Model ----
(***************************************************************************)
(* Model of connectors/services/sync.py: the SyncService event loop        *)
(* (_run), the per-connector unit (_one_sync) and stop().                  *)
(*                                                                         *)
(* ConcurrentTasks (connectors.utils) and BaseService                      *)
(* (connectors.services.base) are not part of the sources at hand; the     *)
(* pool (put / join / cancel), the run-state flag and the error classifier *)
(* (raise_if_spurious) follow their written contracts.                     *)
(***************************************************************************)
EXTENDS Integers, Sequences, FiniteSets, TLC

\* ------------------------------------------------------------------ bounds
MaxItems == 2          \* connectors one discovery stream yields at most
MaxConcurrency == 2    \* largest configured max_concurrent_syncs
ScenarioItems == 3     \* connectors of the scenario stream (A, B, C)
ScenarioSyncs == 2     \* max_concurrent_syncs of the scenario

DEFAULT_MAX_CONCURRENT_SYNCS == 1

VARIABLES
    running,           \* BaseService.running
    concurrent_syncs,  \* self.concurrent_syncs
    connectors,        \* self.connectors: "None" or "ConnectorIndex"
    syncs,             \* self.syncs: NoPool or the round's ConcurrentTasks
    pc,                \* position of _run
    raising,           \* exception propagating out of the round, or NoExc
    caught,            \* exception the round's except clause caught, or NoExc
    unit,              \* the tasks of the round's pool: connector number -> _one_sync
    next,              \* connectors get_all_docs has yielded this round
    submitted,         \* connectors whose put has created a task this round
    closeLog           \* teardown closes, in the order they were issued

vars == <<running, concurrent_syncs, connectors, syncs, pc, raising, caught,
          unit, next, submitted, closeLog>>

\* -------------------------------------------------------------- exceptions
NoExc == [kind |-> "None", persistent |-> FALSE]

Exc(k) == [kind |-> k, persistent |-> FALSE]

\* connectors.byoc.DataSourceError, tolerable or persistent
DataSourceErrors == {[kind |-> "DataSourceError", persistent |-> p] : p \in BOOLEAN}

ConfigurationErrors ==
    {Exc("ServiceTypeNotConfiguredError"), Exc("ConnectorUpdateError"),
     Exc("ServiceTypeNotSupportedError")}

InvalidFilteringError == Exc("InvalidFilteringError")

\* an exception of a kind the service names nowhere
OtherError == Exc("Exception")

PrepareErrors == ConfigurationErrors \cup DataSourceErrors \cup {OtherError}
ValidateErrors == {InvalidFilteringError, OtherError}
SyncErrors == DataSourceErrors \cup {OtherError}
\* what the discovery raises: a fault the classifier tolerates, or an exception
\* it re-raises (a persistent fault takes the same path as an unrecognized one)
DiscoveryErrors == {e \in DataSourceErrors : ~e.persistent} \cup {OtherError}

\* BaseService.raise_if_spurious: TRUE when it raises (the exception is fatal)
IsFatal(e) ==
    IF e.kind = "DataSourceError" THEN e.persistent ELSE TRUE

\* ---------------------------------------------------------------- statuses
NotReady == {"CREATED", "NEEDS_CONFIGURATION"}
Statuses == NotReady \cup {"CONNECTED"}

\* ------------------------------------------------------------ the task pool
NoPool == [exists |-> FALSE, max_concurrency |-> 0, cancelled |-> FALSE]

\* ConcurrentTasks(max_concurrency=n)
ConcurrentTasks(n) == [exists |-> TRUE, max_concurrency |-> n, cancelled |-> FALSE]

\* tasks the pool has created and that have not finished
InFlight == {i \in DOMAIN unit : unit[i].pc # "done"}

\* ConcurrentTasks.put admits a task only while the pool holds fewer than
\* max_concurrency tasks
HasRoom == Cardinality(DOMAIN unit) < syncs.max_concurrency

\* the pool with its task i dropped
Without(i) == [j \in DOMAIN unit \ {i} |-> unit[j]]

\* ConcurrentTasks.cancel
Cancel(pool) == [pool EXCEPT !.cancelled = TRUE]

\* ---------------------------------------------------------- _one_sync state
\* asyncio.create_task(functools.partial(self._one_sync, connector, es))
NewTask ==
    [pc |-> "queued", prepares |-> 0, hbs |-> 0, validates |-> 0, syncs |-> 0,
     errors |-> 0, classified |-> 0, closes |-> 0, status |-> "unknown",
     rules |-> "unknown",
     prepExc |-> NoExc, workExc |-> NoExc, escaped |-> NoExc]

\* the prepare block without its ServiceTypeNotSupportedError clause
PrepareHandlerNoUnsupported(e) ==
    CASE e.kind = "ServiceTypeNotConfiguredError" -> "return"
      [] e.kind = "ConnectorUpdateError" -> "return"
      [] e.kind = "DataSourceError" -> "report"
      [] OTHER -> "propagate"

\* a prepare block without its DataSourceError clause
PrepareHandlerNoDataSource(e) ==
    CASE e.kind = "ServiceTypeNotConfiguredError" -> "return"
      [] e.kind = "ConnectorUpdateError" -> "return"
      [] e.kind = "ServiceTypeNotSupportedError" -> "return"
      [] OTHER -> "propagate"

\* except clauses of the prepare block: what becomes of an exception of prepare
PrepareHandler(e) ==
    CASE e.kind = "ServiceTypeNotConfiguredError" -> "return"
      [] e.kind = "ConnectorUpdateError" -> "return"
      [] e.kind = "ServiceTypeNotSupportedError" -> "return"
      [] e.kind = "DataSourceError" -> "report"
      [] OTHER -> "propagate"

\* a status gate that forgets NEEDS_CONFIGURATION
CanSyncUnlessCreated(status) == status # "CREATED"

\* the status gate: connector.status not in (CREATED, NEEDS_CONFIGURATION)
CanSync(status) == status \notin NotReady

\* a heartbeat/sync block without its except clause
StageHandlerNone(e) ==
    IF e.kind = "None" THEN "return" ELSE "propagate"

\* except clause of the heartbeat/sync block
StageHandler(e) ==
    IF e.kind \in {"None", "InvalidFilteringError"} THEN "return" ELSE "propagate"

\* a close placed after the block instead of in a finally: the return of the
\* InvalidFilteringError handler skips it
ClosesUnlessFilteringError(e) == e.kind # "InvalidFilteringError"

\* finally clause of the heartbeat/sync block: connector.close() on every exit
ClosesOnExit(e) == TRUE

\* the unit has returned (NoExc) or an exception has left it
Finished(u, e) == [u EXCEPT !.pc = "done", !.escaped = e]

\* leaving the heartbeat/sync block with outcome e (NoExc: fell off its end)
ExitBlock(u, e) ==
    LET out == IF StageHandler(e) = "return" THEN NoExc ELSE e
    IN  IF ClosesOnExit(e)
        THEN [u EXCEPT !.pc = "closing", !.closes = @ + 1, !.workExc = e]
        ELSE Finished([u EXCEPT !.workExc = e], out)

\* a block that starts the heartbeat only for a connector it is going to sync
EnterBlockHeartbeatIfSyncing(u, status, rules) ==
    LET hb == [u EXCEPT !.status = status]
    IN  IF ~CanSync(status) THEN [hb EXCEPT !.pc = "yield"]
        ELSE IF rules
             THEN [hb EXCEPT !.hbs = @ + 1, !.rules = "enabled",
                             !.pc = "validating", !.validates = @ + 1]
             ELSE [hb EXCEPT !.hbs = @ + 1, !.rules = "disabled",
                             !.pc = "syncing", !.syncs = @ + 1]

\* start_heartbeat, then the status gate and the sync-rules test (read only
\* for a connector that passed the gate)
EnterBlock(u, status, rules) ==
    LET hb == [u EXCEPT !.hbs = @ + 1, !.status = status]
    IN  IF ~CanSync(status) THEN [hb EXCEPT !.pc = "yield"]
        ELSE IF rules
             THEN [hb EXCEPT !.rules = "enabled",
                             !.pc = "validating", !.validates = @ + 1]
             ELSE [hb EXCEPT !.rules = "disabled",
                             !.pc = "syncing", !.syncs = @ + 1]

\* a unit without its liveness gate
GateAlwaysOpen == FALSE

\* the liveness gate: if self.running is False
Terminating == running = FALSE

\* the liveness gate, then the call of connector.prepare
UnitStart(i) ==
    /\ i \in DOMAIN unit
    /\ unit[i].pc = "queued"
    /\ unit' = [unit EXCEPT ![i] =
                  IF Terminating THEN Finished(@, NoExc)
                  ELSE [@ EXCEPT !.pc = "preparing", !.prepares = @ + 1]]
    /\ UNCHANGED <<submitted, caught, running, concurrent_syncs, connectors, syncs, pc, raising,
                   next, closeLog>>

\* a task the pool cancelled before its first step never runs its body
UnitCancelled(i) ==
    /\ i \in DOMAIN unit
    /\ unit[i].pc = "queued"
    /\ syncs.exists /\ syncs.cancelled
    /\ unit' = [unit EXCEPT ![i] = Finished(@, NoExc)]
    /\ UNCHANGED <<submitted, caught, running, concurrent_syncs, connectors, syncs, pc, raising,
                   next, closeLog>>

\* connector.prepare returns
UnitPrepared(i, statuses) ==
    /\ i \in DOMAIN unit
    /\ unit[i].pc = "preparing"
    /\ \E status \in statuses, rules \in BOOLEAN :
          unit' = [unit EXCEPT ![i] = EnterBlock(@, status, rules)]
    /\ UNCHANGED <<submitted, caught, running, concurrent_syncs, connectors, syncs, pc, raising,
                   next, closeLog>>

\* connector.prepare raises
UnitPrepareRaises(i) ==
    /\ i \in DOMAIN unit
    /\ unit[i].pc = "preparing"
    /\ \E e \in PrepareErrors :
          unit' = [unit EXCEPT ![i] =
                     LET u == [@ EXCEPT !.prepExc = e]
                     IN  CASE PrepareHandler(e) = "return" -> Finished(u, NoExc)
                           [] PrepareHandler(e) = "report" ->
                                [u EXCEPT !.pc = "reporting", !.errors = @ + 1]
                           [] OTHER -> Finished(u, e)]
    /\ UNCHANGED <<submitted, caught, running, concurrent_syncs, connectors, syncs, pc, raising,
                   next, closeLog>>

\* connector.error returns, then raise_if_spurious and the return after it
UnitReported(i) ==
    /\ i \in DOMAIN unit
    /\ unit[i].pc = "reporting"
    /\ unit' = [unit EXCEPT ![i] =
                  Finished([@ EXCEPT !.classified = @ + 1],
                           IF IsFatal(@.prepExc) THEN @.prepExc ELSE NoExc)]
    /\ UNCHANGED <<submitted, caught, running, concurrent_syncs, connectors, syncs, pc, raising,
                   next, closeLog>>

\* validate_filtering returns or raises
UnitValidated(i) ==
    /\ i \in DOMAIN unit
    /\ unit[i].pc = "validating"
    /\ \/ unit' = [unit EXCEPT ![i] = [@ EXCEPT !.pc = "syncing", !.syncs = @ + 1]]
       \/ \E e \in ValidateErrors : unit' = [unit EXCEPT ![i] = ExitBlock(@, e)]
    /\ UNCHANGED <<submitted, caught, running, concurrent_syncs, connectors, syncs, pc, raising,
                   next, closeLog>>

\* connector.sync returns or raises
UnitSynced(i) ==
    /\ i \in DOMAIN unit
    /\ unit[i].pc = "syncing"
    /\ \/ unit' = [unit EXCEPT ![i] = [@ EXCEPT !.pc = "yield"]]
       \/ \E e \in SyncErrors : unit' = [unit EXCEPT ![i] = ExitBlock(@, e)]
    /\ UNCHANGED <<submitted, caught, running, concurrent_syncs, connectors, syncs, pc, raising,
                   next, closeLog>>

\* asyncio.sleep(0) returns; the block is left through its finally
UnitYielded(i) ==
    /\ i \in DOMAIN unit
    /\ unit[i].pc = "yield"
    /\ unit' = [unit EXCEPT ![i] = ExitBlock(@, NoExc)]
    /\ UNCHANGED <<submitted, caught, running, concurrent_syncs, connectors, syncs, pc, raising,
                   next, closeLog>>

\* connector.close returns; the unit returns or the pending exception goes on
UnitClosed(i) ==
    /\ i \in DOMAIN unit
    /\ unit[i].pc = "closing"
    /\ unit' = [unit EXCEPT ![i] =
                  Finished(@, IF StageHandler(@.workExc) = "return"
                              THEN NoExc ELSE @.workExc)]
    /\ UNCHANGED <<submitted, caught, running, concurrent_syncs, connectors, syncs, pc, raising,
                   next, closeLog>>

\* the pool's done-callback drops a task that is over
UnitReaped(i) ==
    /\ i \in DOMAIN unit
    /\ unit[i].pc = "done"
    /\ unit' = Without(i)
    /\ UNCHANGED <<submitted, caught, running, concurrent_syncs, connectors, syncs, pc, raising,
                   next, closeLog>>

UnitStep(i) ==
    \/ UnitStart(i)
    \/ UnitCancelled(i)
    \/ UnitPrepared(i, Statuses)
    \/ UnitPrepareRaises(i)
    \/ UnitReported(i)
    \/ UnitValidated(i)
    \/ UnitSynced(i)
    \/ UnitYielded(i)
    \/ UnitClosed(i)
    \/ UnitReaped(i)

\* ------------------------------------------------------------------- _run
\* a pool one task wider than configured
NewPoolOffByOne == ConcurrentTasks(concurrent_syncs + 1)

\* a pool that ignores the configured max_concurrent_syncs
NewPoolDefault == ConcurrentTasks(DEFAULT_MAX_CONCURRENT_SYNCS)

\* self.syncs = ConcurrentTasks(max_concurrency=self.concurrent_syncs)
NewPool == ConcurrentTasks(concurrent_syncs)

\* while True
LoopForever == TRUE

\* while self.running
LoopCondition == running

\* if not self.running: break
BreakCondition == ~running

\* a join placed after the try instead of in its finally
JoinSkippedOnRaise == FALSE

\* the join sits in a finally: it is awaited also when the round raises
JoinOnRaise == TRUE

\* the outer finally without its es.close()
TeardownDirectoryOnly ==
    IF connectors # "None" THEN <<"connectors">> ELSE <<>>

\* the outer finally with its two closes swapped
TeardownSwapped ==
    <<"es">> \o (IF connectors # "None" THEN <<"connectors">> ELSE <<>>)

\* the outer finally: connectors.close() (when set), then es.close()
TeardownSteps ==
    (IF connectors # "None" THEN <<"connectors">> ELSE <<>>) \o <<"es">>

\* a stop() that only clears the flag
NeverCancel == FALSE

\* stop(): if self.syncs is not None
ShouldCancel == syncs.exists

\* self.connectors = ConnectorIndex(...); es = ElasticServer(...)
Start ==
    /\ pc = "init"
    /\ connectors' = "ConnectorIndex"
    /\ pc' = "top"
    /\ UNCHANGED <<submitted, caught, running, concurrent_syncs, syncs, raising, unit,
                   next, closeLog>>

\* the loop test holds: a fresh pool, the query, the discovery stream
BeginRound ==
    /\ pc = "top"
    /\ LoopCondition
    /\ syncs' = NewPool
    /\ caught' = NoExc
    /\ pc' = "discover"
    /\ UNCHANGED <<submitted, running, concurrent_syncs, connectors, raising, unit,
                   next, closeLog>>

\* the loop test fails
LeaveLoop ==
    /\ pc = "top"
    /\ ~LoopCondition
    /\ pc' = "teardown"
    /\ UNCHANGED <<submitted, caught, running, concurrent_syncs, connectors, syncs, raising, unit,
                   next, closeLog>>

\* a put that is not awaited: a connector found while the pool is full is
\* passed over
DiscoverYieldsOrSkips(limit) ==
    /\ pc = "discover"
    /\ next < limit
    /\ next' = next + 1
    /\ IF HasRoom
       THEN /\ unit' = (next + 1 :> NewTask) @@ unit
            /\ submitted' = Append(submitted, next + 1)
       ELSE UNCHANGED <<unit, submitted>>
    /\ UNCHANGED <<caught, running, concurrent_syncs, connectors, syncs, pc,
                   raising, closeLog>>

\* get_all_docs yields a connector; await self.syncs.put(...)
DiscoverYields(limit) ==
    /\ pc = "discover"
    /\ next < limit
    /\ next' = next + 1
    /\ IF HasRoom
       THEN /\ unit' = (next + 1 :> NewTask) @@ unit
            /\ submitted' = Append(submitted, next + 1)
            /\ UNCHANGED pc
       ELSE /\ pc' = "put"
            /\ UNCHANGED <<unit, submitted>>
    /\ UNCHANGED <<caught, running, concurrent_syncs, connectors, syncs, raising,
                   closeLog>>

\* a task is over: the suspended put creates its task and returns
PutResumes ==
    /\ pc = "put"
    /\ HasRoom
    /\ unit' = (next :> NewTask) @@ unit
    /\ submitted' = Append(submitted, next)
    /\ pc' = "discover"
    /\ UNCHANGED <<caught, running, concurrent_syncs, connectors, syncs, raising,
                   next, closeLog>>

\* the stream is exhausted
DiscoverEnds ==
    /\ pc = "discover"
    /\ pc' = "join"
    /\ UNCHANGED <<submitted, caught, running, concurrent_syncs, connectors, syncs, raising, unit,
                   next, closeLog>>

\* build_docs_query / get_all_docs raises: except Exception, raise_if_spurious
DiscoverRaises ==
    /\ pc = "discover"
    /\ \E e \in DiscoveryErrors :
          /\ caught' = e
          /\ IF IsFatal(e)
             THEN /\ raising' = e
                  /\ pc' = IF JoinOnRaise THEN "join" ELSE "teardown"
             ELSE /\ raising' = NoExc
                  /\ pc' = "join"
    /\ UNCHANGED <<submitted, running, concurrent_syncs, connectors, syncs, unit,
                   next, closeLog>>

\* join returns once every task of the pool is over; the finished tasks of the
\* round are dropped with it
Join ==
    /\ pc = "join"
    /\ InFlight = {}
    /\ IF raising # NoExc
       THEN /\ pc' = "teardown"
            /\ UNCHANGED syncs
       ELSE /\ syncs' = NoPool
            /\ pc' = IF BreakCondition THEN "teardown" ELSE "sleep"
    /\ unit' = <<>>
    /\ next' = 0
    /\ submitted' = <<>>
    /\ UNCHANGED <<caught, running, concurrent_syncs, connectors, raising, closeLog>>

\* self._sleeps.sleep(self.idling) returns
Sleep ==
    /\ pc = "sleep"
    /\ pc' = "top"
    /\ UNCHANGED <<submitted, caught, running, concurrent_syncs, connectors, syncs, raising, unit,
                   next, closeLog>>

\* one close of the outer finally; after the last, _run returns or raises
Teardown ==
    /\ pc = "teardown"
    /\ Len(closeLog) < Len(TeardownSteps)
    /\ closeLog' = Append(closeLog, TeardownSteps[Len(closeLog) + 1])
    /\ pc' = IF Len(closeLog') = Len(TeardownSteps) THEN "exited" ELSE "teardown"
    /\ UNCHANGED <<submitted, caught, running, concurrent_syncs, connectors, syncs, raising, unit,
                   next>>

\* ------------------------------------------------------------------- stop
Stop ==
    /\ running' = FALSE
    /\ syncs' = IF ShouldCancel THEN Cancel(syncs) ELSE syncs
    /\ UNCHANGED <<submitted, caught, concurrent_syncs, connectors, pc, raising, unit,
                   next, closeLog>>

\* ---------------------------------------------------------- specification
\* the service as constructed with max_concurrent_syncs = n
InitWith(n) ==
    /\ running = TRUE
    /\ concurrent_syncs = n
    /\ connectors = "None"
    /\ syncs = NoPool
    /\ pc = "init"
    /\ raising = NoExc
    /\ caught = NoExc
    /\ unit = <<>>
    /\ next = 0
    /\ submitted = <<>>
    /\ closeLog = <<>>

\* max_concurrent_syncs is absent from the configuration or a positive integer
Init ==
    \E n \in {DEFAULT_MAX_CONCURRENT_SYNCS} \cup (1..MaxConcurrency) : InitWith(n)

LoopStep ==
    \/ Start
    \/ BeginRound
    \/ LeaveLoop
    \/ DiscoverYields(MaxItems)
    \/ PutResumes
    \/ DiscoverEnds
    \/ DiscoverRaises
    \/ Join
    \/ Sleep
    \/ Teardown

\* a step of the event loop: _run or one of the tasks runs to its next await
RunStep ==
    \/ LoopStep
    \/ \E i \in 1..MaxItems : UnitStep(i)

Next ==
    \/ RunStep
    \/ Stop

Spec == Init /\ [][Next]_vars

\* the event loop keeps running: while _run or a task is able to take a step,
\* one of them does (every awaited operation returns)
FairSpec == Spec /\ WF_vars(RunStep)

\* ---------------------------------------------------------------- scenario
\* max_concurrent_syncs = ScenarioSyncs; every round discovers ScenarioItems
\* connectors that prepare and are ready to sync; nobody calls stop()
ScenarioInit == InitWith(ScenarioSyncs)

ScenarioStreamEnds ==
    /\ next = ScenarioItems
    /\ DiscoverEnds

ScenarioLoopStep ==
    \/ Start
    \/ BeginRound
    \/ DiscoverYields(ScenarioItems)
    \/ PutResumes
    \/ ScenarioStreamEnds
    \/ Join
    \/ Sleep

ScenarioUnitStep(i) ==
    \/ UnitStart(i)
    \/ UnitPrepared(i, Statuses \ NotReady)
    \/ UnitValidated(i)
    \/ UnitSynced(i)
    \/ UnitYielded(i)
    \/ UnitClosed(i)
    \/ UnitReaped(i)

ScenarioNext ==
    \/ ScenarioLoopStep
    \/ \E i \in 1..ScenarioItems : ScenarioUnitStep(i)

\* the event loop keeps running, as in FairSpec
ScenarioSpec == ScenarioInit /\ [][ScenarioNext]_vars /\ WF_vars(ScenarioNext)

\* ================================================================ properties
\* an item-scoped failure: a configuration error of prepare, or invalid filtering
ItemScopedFailure(u) ==
    u.prepExc \in ConfigurationErrors \/ u.workExc = InvalidFilteringError

\* a data-source fault raised by connector.sync
SyncFault(u) == u.syncs = 1 /\ u.workExc \in DataSourceErrors

\* C1: at every moment the tasks the pool has started and that have not
\* finished number at most max_concurrent_syncs
C1_ConcurrencyCeiling == Cardinality(InFlight) <= concurrent_syncs

\* a put is suspended because the pool is full
C1_Witness == pc = "put" /\ Cardinality(InFlight) = concurrent_syncs

C3_NotReadyNeverSyncs ==
    \A i \in DOMAIN unit :
        unit[i].status \in NotReady =>
            /\ unit[i].syncs = 0
            /\ unit[i].validates = 0
            /\ unit[i].errors = 0
            /\ unit[i].workExc = NoExc
            /\ unit[i].escaped = NoExc

\* a NEEDS_CONFIGURATION connector went through its unit to the end
C3_Witness ==
    \E i \in DOMAIN unit :
        /\ unit[i].status = "NEEDS_CONFIGURATION"
        /\ unit[i].pc = "done"
        /\ unit[i].hbs = 1

\* C4: an item-scoped failure never leaves its unit; when the join of such a
\* round returns every task of the round is over, and a loop that was not
\* stopped (and whose discovery did not fail fatally) goes on to sleep
C4_ItemScopedContained ==
    /\ [](\A i \in DOMAIN unit :
            (ItemScopedFailure(unit[i]) /\ unit[i].pc = "done")
                => unit[i].escaped = NoExc)
    /\ [][(pc = "join" /\ pc' # "join"
             /\ \E i \in DOMAIN unit : ItemScopedFailure(unit[i]))
          => /\ \A j \in DOMAIN unit : unit[j].pc = "done"
             /\ (running /\ raising = NoExc) => pc' = "sleep"]_vars

\* prepare of the first connector raised a configuration error, the second
\* connector synced and closed, and the join is about to return
C4_Witness ==
    /\ pc = "join" /\ running /\ raising = NoExc
    /\ DOMAIN unit = {1, 2}
    /\ unit[1].pc = "done" /\ unit[1].prepExc \in ConfigurationErrors
    /\ unit[2].pc = "done" /\ unit[2].syncs = 1 /\ unit[2].closes = 1
    /\ unit[2].workExc = NoExc

\* C5 as stated: after a round in which a sync raised a data-source fault, the
\* loop leaves for teardown when the fault is fatal, and goes on to sleep when
\* it is not (no stop, no fatal discovery failure)
C5_SyncFaultClassified ==
    [][(pc = "join" /\ pc' # "join" /\ \E i \in DOMAIN unit : SyncFault(unit[i]))
       => IF \E i \in DOMAIN unit : SyncFault(unit[i]) /\ IsFatal(unit[i].workExc)
          THEN pc' = "teardown"
          ELSE (running /\ raising = NoExc) => pc' = "sleep"]_vars

\* C6: once stop() has been called no pool is created and no discovery begins;
\* the loop reaches its teardown only with no task of the round in flight
C6_NoRoundAfterStop ==
    /\ [][~running =>
            /\ syncs'.exists => (syncs.exists /\ syncs'.cancelled = syncs.cancelled)
            /\ pc' = "discover" => pc \in {"discover", "put"}]_vars
    /\ [](pc \in {"teardown", "exited"} => InFlight = {})

\* stop() arrived during a round: the join waits for a task still in flight
C6_Witness ==
    /\ ~running
    /\ pc = "join"
    /\ syncs.cancelled
    /\ \E i \in DOMAIN unit : unit[i].pc = "syncing"

\* C7: the teardown closes the directory connection and then the backend
\* connection, each once, on every way out of the loop, and nothing is closed
\* before the loop is left
C7_TeardownOrder ==
    /\ pc = "exited" => closeLog = <<"connectors", "es">>
    /\ pc = "teardown" => closeLog \in {<<>>, <<"connectors">>}
    /\ pc \notin {"teardown", "exited"} => closeLog = <<>>

\* the loop was left by a fatal exception of the discovery and has torn down
C7_Witness ==
    /\ pc = "exited"
    /\ raising # NoExc
    /\ closeLog = <<"connectors", "es">>

\* C8: with max_concurrent_syncs = N the first N connectors are started without
\* the producer suspending, a later one is started only after an earlier task
\* is over, and every discovered connector is eventually closed
C8_Backpressure ==
    /\ [](pc = "put" => next > concurrent_syncs)
    /\ [](\A i \in DOMAIN unit :
            i > concurrent_syncs
               => \E j \in 1..(i - 1) : j \notin DOMAIN unit \/ unit[j].pc = "done")
    /\ \A i \in 1..ScenarioItems :
          (next >= i) ~> (i \in DOMAIN unit /\ unit[i].closes = 1)

\* the put of the third connector waits while the first two are in flight
C8_Witness ==
    /\ concurrent_syncs = 2
    /\ pc = "put" /\ next = 3
    /\ InFlight = {1, 2}

C10_StopLeadsToExit ==
    (~running) ~> (pc = "exited" /\ closeLog = <<"connectors", "es">>)

\* stop() was called and the loop has left normally and torn down
C10_Witness ==
    /\ ~running
    /\ pc = "exited"
    /\ syncs = NoPool
    /\ raising = NoExc
    /\ closeLog = <<"connectors", "es">>

\* the unit has made no call on its connector
NoSideEffect(u) ==
    /\ u.prepares = 0 /\ u.hbs = 0 /\ u.validates = 0 /\ u.syncs = 0
    /\ u.errors = 0 /\ u.closes = 0

\* C11: once the run-state flag is false, a unit that has not begun (queued
\* before stop() or submitted after it) ends at the liveness gate: it calls
\* none of prepare, start_heartbeat, validate_filtering, sync, error or close on
\* its connector, and no exception leaves it
C11_GateNoOp ==
    [][~running =>
          \A i \in DOMAIN unit' :
              (i \notin DOMAIN unit \/ unit[i].pc = "queued")
                 => /\ unit'[i].pc \in {"queued", "done"}
                    /\ NoSideEffect(unit'[i])
                    /\ unit'[i].escaped = NoExc]_vars

\* after stop() the discovery went on: a unit has ended at the gate and
\* another one, submitted since, is still queued
C11_Witness ==
    /\ ~running
    /\ pc = "discover"
    /\ \E i, j \in DOMAIN unit :
          /\ i < j
          /\ unit[i].pc = "done" /\ NoSideEffect(unit[i])
          /\ unit[j].pc = "queued"

PastPrepare(u) ==
    u.prepares = 1 /\ u.prepExc = NoExc /\ u.pc \notin {"queued", "preparing"}

\* C13: a unit that got past prepare has started the heartbeat exactly once,
\* whatever the status; validate_filtering and sync are only ever called with
\* the heartbeat started; a CREATED or NEEDS_CONFIGURATION connector ends with
\* the heartbeat started, no sync, no error reported and its close done
C13_HeartbeatFirst ==
    \A i \in DOMAIN unit :
        /\ unit[i].hbs = (IF PastPrepare(unit[i]) THEN 1 ELSE 0)
        /\ (unit[i].validates > 0 \/ unit[i].syncs > 0) => unit[i].hbs = 1
        /\ (unit[i].status \in NotReady /\ unit[i].pc = "done")
              => /\ unit[i].hbs = 1 /\ unit[i].syncs = 0 /\ unit[i].errors = 0
                 /\ unit[i].closes = 1 /\ unit[i].escaped = NoExc

\* a CREATED connector has ended: heartbeat started, never synced, closed
C13_Witness ==
    \E i \in DOMAIN unit :
        /\ unit[i].status = "CREATED"
        /\ unit[i].pc = "done"
        /\ unit[i].hbs = 1 /\ unit[i].syncs = 0 /\ unit[i].closes = 1

\* C14: validate_filtering is called at most once, and only for a connector
\* past the status gate whose sync rules are enabled; when it raises
\* InvalidFilteringError the connector is not synced, no error is reported
\* against it, the classifier is not consulted, the connector is closed and
\* the unit ends normally
C14_InvalidFilteringSkips ==
    \A i \in DOMAIN unit :
        /\ unit[i].validates <= 1
        /\ unit[i].validates = 1
              => (CanSync(unit[i].status) /\ unit[i].rules = "enabled")
        /\ unit[i].workExc = InvalidFilteringError
              => /\ unit[i].validates = 1
                 /\ unit[i].syncs = 0
                 /\ unit[i].errors = 0
                 /\ unit[i].classified = 0
                 /\ unit[i].closes = 1
                 /\ unit[i].escaped = NoExc

\* validate_filtering raised InvalidFilteringError and the unit has ended
C14_Witness ==
    \E i \in DOMAIN unit :
        /\ unit[i].workExc = InvalidFilteringError
        /\ unit[i].pc = "done"
        /\ unit[i].closes = 1

\* C15: a DataSourceError of prepare is reported against the connector
\* (connector.error) before the classifier is consulted; the unit then ends
\* with the exception leaving it when it is fatal and normally when it is not,
\* in both cases with no heartbeat, no validate_filtering and no sync
C15_PrepareFaultReported ==
    \A i \in DOMAIN unit :
        unit[i].prepExc \in DataSourceErrors =>
            /\ unit[i].errors = 1
            /\ unit[i].pc \in {"reporting", "done"}
            /\ unit[i].classified = (IF unit[i].pc = "done" THEN 1 ELSE 0)
            /\ unit[i].hbs = 0 /\ unit[i].validates = 0 /\ unit[i].syncs = 0
            /\ unit[i].pc = "done" =>
                  unit[i].escaped =
                     (IF IsFatal(unit[i].prepExc) THEN unit[i].prepExc ELSE NoExc)

\* two prepares raised DataSourceError: the tolerable one ended its unit
\* normally, the fatal one left its unit
C15_Witness ==
    \E i, j \in DOMAIN unit :
        /\ unit[i].pc = "done" /\ unit[i].prepExc \in DataSourceErrors
        /\ unit[i].classified = 1 /\ unit[i].escaped = NoExc
        /\ unit[j].pc = "done" /\ unit[j].prepExc \in DataSourceErrors
        /\ unit[j].classified = 1 /\ unit[j].escaped = unit[j].prepExc

\* C16 as stated: a DataSourceError of sync is reported against the connector
\* and handed to the classifier, and it leaves the unit only when it is fatal
C16_SyncFaultReported ==
    \A i \in DOMAIN unit :
        (SyncFault(unit[i]) /\ unit[i].pc = "done") =>
            /\ unit[i].errors = 1
            /\ unit[i].classified = 1
            /\ unit[i].escaped # NoExc => IsFatal(unit[i].workExc)

\* C17: an exception of the discovery leads to the join before anything else;
\* when that join returns every task of the round is over, and the loop goes
\* to its teardown when the exception is fatal (no sleep, no further round)
\* and on to the sleep and the next round when it is not (unless stop() was
\* called meanwhile); nothing is closed, no sleep and no round begins while a
\* task of the round is in flight
C17_JoinAfterDiscoveryFailure ==
    /\ [](pc \in {"sleep", "top", "teardown", "exited"} => InFlight = {})
    /\ [](closeLog # <<>> => InFlight = {})
    /\ [](raising # NoExc
            => (raising = caught /\ pc \in {"join", "teardown", "exited"}))
    /\ [][(pc = "discover" /\ caught' # caught) => pc' = "join"]_vars
    /\ [][(pc = "join" /\ pc' # "join" /\ caught # NoExc)
            => /\ InFlight = {}
               /\ pc' = IF IsFatal(caught) \/ ~running
                        THEN "teardown" ELSE "sleep"]_vars
    /\ [][(pc = "sleep" /\ pc' # pc) => pc' = "top"]_vars
    /\ [][(pc = "top" /\ pc' # pc /\ running) => pc' = "discover"]_vars

\* the discovery failed with a tolerable exception; the join has returned and
\* the loop sleeps before its next round
C17_Witness ==
    /\ pc = "sleep"
    /\ running
    /\ caught \in DataSourceErrors /\ ~IsFatal(caught)
    /\ raising = NoExc
    /\ syncs = NoPool

\* an exception of an unrecognized kind was raised by a call of the unit
Unrecognized(u) == u.prepExc = OtherError \/ u.workExc = OtherError

\* C18 as stated: an exception of an unrecognized kind raised by prepare,
\* validate_filtering or sync leaves its unit, and the loop
\* goes to its teardown after the join of that round instead of sleeping
C18_UnrecognizedIsFatal ==
    /\ [](\A i \in DOMAIN unit :
            (Unrecognized(unit[i]) /\ unit[i].pc = "done")
                => unit[i].escaped = OtherError)
    /\ [][(pc = "join" /\ pc' # "join"
             /\ \E i \in DOMAIN unit : Unrecognized(unit[i]))
          => pc' = "teardown"]_vars

\* C19 as stated: the service holds a pool only from the creation of a
\* round's pool to the return of its join: self.syncs is None during the
\* sleep, at the loop test and after the loop was left on any path, and a
\* stop() after the loop was left cancels nothing
C19_PoolOnlyDuringRound ==
    /\ [](syncs.exists => pc \in {"discover", "put", "join"})
    /\ [][(pc \in {"teardown", "exited"}) => (syncs' = syncs)]_vars

\* connectors of the round whose put has returned
Admitted == IF pc = "put" THEN next - 1 ELSE next

\* C20: the connectors the discovery has yielded are submitted to the pool
\* once each and in the order of their discovery (all of them but the one whose
\* put is suspended); a task leaves the pool only when it is over, and the join
\* returns only when every task submitted in the round is over; in a round
\* whose discovery yields nothing no task is created, the join returns at
\* once, and the loop sleeps and then tests for its next round
C20_SubmittedOnceInOrder ==
    /\ [](/\ Len(submitted) = Admitted
          /\ \A k \in 1..Len(submitted) : submitted[k] = k
          /\ \A i \in DOMAIN unit : \E k \in 1..Len(submitted) : submitted[k] = i)
    /\ [][\A i \in DOMAIN unit : i \notin DOMAIN unit' => unit[i].pc = "done"]_vars
    /\ [][(pc = "join" /\ pc' # "join")
            => \A k \in 1..Len(submitted) :
                   submitted[k] \in DOMAIN unit => unit[submitted[k]].pc = "done"]_vars
    /\ []((pc = "join" /\ submitted = <<>>) => (unit = <<>> /\ ENABLED Join))
    /\ [][(pc = "join" /\ pc' # "join" /\ submitted = <<>>
             /\ running /\ raising = NoExc) => pc' = "sleep"]_vars
    /\ [][(pc = "sleep" /\ pc' # pc) => (pc' = "top" /\ unit' = <<>>)]_vars

\* with max_concurrent_syncs = 1 two connectors were submitted one after the
\* other; the first task is over and dropped, the second is over, and the join
\* is about to return
C20_Witness ==
    /\ concurrent_syncs = 1
    /\ pc = "join"
    /\ submitted = <<1, 2>>
    /\ DOMAIN unit = {2}
    /\ unit[2].pc = "done" /\ unit[2].closes = 1

====
